---------------------------- MODULE Spec2Model ----------------------------
(***************************************************************************)
(* A model of lirc_tegra.c: the GPIO infrared transceiver driver.          *)
(*                                                                         *)
(*   - carrier timing      init_timing_params, the LIRC_SET_* ioctls       *)
(*   - transmitter         lirc_write, send_pulse, send_pulse_softcarrier, *)
(*                         send_space                                      *)
(*   - port initialisation init_port (output lines, sense autodetection)   *)
(*   - receive path        irq_handler, frbwrite, rbwrite, the lirc_buffer *)
(*                                                                         *)
(* C integers keep their width.  TLC's integers are 32 bits wide, so an    *)
(* unsigned long (64 bits on the arm64 target) is written as its eight     *)
(* bytes, least significant first, and an unsigned int whose value does    *)
(* not fit (INVALID stored into duty_cycle) is written as the two's        *)
(* complement integer with the same 32 bits.                               *)
(***************************************************************************)
EXTENDS Integers, Sequences, FiniteSets, TLC

(***************************************************************************)
(* 64-bit and 32-bit machine arithmetic on byte strings.                   *)
(***************************************************************************)

\* the k low bytes of n >= 0, least significant first
RECURSIVE BytesOf(_, _)
BytesOf(n, k) ==
    IF k = 0 THEN <<>> ELSE <<n % 256>> \o BytesOf(n \div 256, k - 1)

\* bitwise complement of a byte string
NotBytes(a) == [i \in 1..Len(a) |-> 255 - a[i]]

\* the k-byte two's complement pattern of the integer n
IntBytes(n, k) ==
    IF n >= 0 THEN BytesOf(n, k) ELSE NotBytes(BytesOf(-(n + 1), k))

\* conversion of an int to unsigned long: sign extension
U64(n) == IntBytes(n, 8)

\* conversion of an unsigned int to (unsigned) long: zero extension
U64FromU32(x) == IntBytes(x, 4) \o <<0, 0, 0, 0>>

RECURSIVE AddCarry(_, _, _)
AddCarry(a, b, c) ==
    IF a = <<>> THEN <<>>
    ELSE LET s == Head(a) + Head(b) + c
         IN  <<s % 256>> \o AddCarry(Tail(a), Tail(b), s \div 256)

\* a + b modulo 2^64
U64Add(a, b) == AddCarry(a, b, 0)

\* a - b modulo 2^64
U64Sub(a, b) == AddCarry(a, NotBytes(b), 1)

\* a * m for one byte m, modulo 2^(8 * Len(a))
RECURSIVE MulByte(_, _, _)
MulByte(a, m, c) ==
    IF a = <<>> THEN <<>>
    ELSE LET s == Head(a) * m + c
         IN  <<s % 256>> \o MulByte(Tail(a), m, s \div 256)

\* a * b modulo 2^64
RECURSIVE U64Mul(_, _)
U64Mul(a, b) ==
    IF \A i \in 1..Len(b) : b[i] = 0 THEN [i \in 1..Len(a) |-> 0]
    ELSE LET rest == U64Mul(a, Tail(b))
             shifted == <<0>> \o SubSeq(rest, 1, Len(a) - 1)
         IN  IF Head(b) = 0 THEN shifted
             ELSE AddCarry(MulByte(a, Head(b), 0), shifted, 0)

\* long division of a byte string by a small k, most significant byte first;
\* <<quotient, remainder>>
RECURSIVE DivRem(_, _)
DivRem(a, k) ==
    IF a = <<>> THEN <<(<<>>), 0>>
    ELSE LET hi == DivRem(Tail(a), k)
             cur == hi[2] * 256 + Head(a)
         IN  <<(<<cur \div k>> \o hi[1]), cur % k>>

\* a / k for 0 < k <= 1000
U64Div(a, k) == DivRem(a, k)[1]

\* a < b, as unsigned values
RECURSIVE U64Lt(_, _)
U64Lt(a, b) ==
    IF a = <<>> THEN FALSE
    ELSE LET n == Len(a)
         IN  IF a[n] # b[n] THEN a[n] < b[n]
             ELSE U64Lt(SubSeq(a, 1, n - 1), SubSeq(b, 1, n - 1))

U64Le(a, b) == a = b \/ U64Lt(a, b)

\* the value of a byte string that is below 2^31
RECURSIVE SmallVal(_)
SmallVal(a) == IF a = <<>> THEN 0 ELSE Head(a) + 256 * SmallVal(Tail(a))

\* whether an unsigned long is below 2^31, so that TLC can hold its value
Fits(a) == a[8] = 0 /\ a[7] = 0 /\ a[6] = 0 /\ a[5] = 0 /\ a[4] < 128

\* (int) x of an unsigned long x: its low 32 bits as a two's complement int
Int32(a) ==
    LET lo == SubSeq(a, 1, 4)
    IN  IF lo[4] < 128 THEN SmallVal(lo) ELSE -SmallVal(NotBytes(lo)) - 1


(***************************************************************************)
(* Constants of the driver and of the kernel headers it includes.          *)
(***************************************************************************)

LIRC_TRANSMITTER_LATENCY == 50
MAX_UDELAY_US == 5000
INVALID == -1
PULSE_BIT == 16777216
PULSE_MASK == 16777215
EINVAL == 22
EBUSY == 16
ENOMEM == 12
EFAULT == 14
\* sizeof(int)
SizeofInt == 4
\* 1000 * 1000000L, the nanoseconds of a second
NsPerSec == 1000 * 1000000

(***************************************************************************)
(* Bounds of the model.                                                    *)
(***************************************************************************)

\* the most output lines a configuration has (gpio_out_pin holds up to 8)
MaxTransmitters == 2
\* the capacity of the read buffer (the driver asks for 256 records)
RBUF_LEN == 3
\* the most records fed to the noise filter, or written to the buffer, in a run
MaxFeed == 4
\* the most edges the interrupt handler sees in a run
MaxEdges == 3
\* the most microseconds the clock runs past the end of a udelay()
MaxJitter == 1
\* the most passes of the carrier loop followed for one pulse
MaxPasses == 14

(***************************************************************************)
(* State.                                                                  *)
(***************************************************************************)

VARIABLES
    \* module parameters (lines 73-90)
    n_transmitters, sense, softcarrier, invert, tx_mask,
    \* carrier timing (lines 106-110)
    freq, duty_cycle, period, pulse_width, space_width,
    \* the driver's life: "load", "ready" (init_port done), "open"
    phase,
    \* whether irq_handler is registered on the input line
    irq_on,
    \* the level of each configured output line
    gpio_out,
    \* the spinlock of lirc_write: 0 when free, else the thread holding it
    lock,
    \* per transmitting thread: its place in lirc_write and its locals
    wr,
    \* receive path: lasttv, the lirc_buffer, the statics of frbwrite
    lasttv, rbuf, pulse, space, ptr,
    \* history: the nine votes of init_port
    samples,
    \* history: the last control operation and what it returned
    ctl,
    \* history: the last edge irq_handler saw, the last call of frbwrite
    edge, nedges, flt,
    \* history: the records given to frbwrite, the records given to rbwrite,
    \* the number of those that rbwrite dropped, the records the reader took
    fed, out, dropped, drained

carrier == <<freq, duty_cycle, period, pulse_width, space_width>>
params == <<n_transmitters, softcarrier, invert>>
txvars == <<gpio_out, lock, wr>>
rxvars == <<lasttv, rbuf, pulse, space, ptr, edge, nedges, flt, fed, out,
            dropped, drained>>
vars == <<n_transmitters, sense, softcarrier, invert, tx_mask,
          freq, duty_cycle, period, pulse_width, space_width,
          phase, irq_on, gpio_out, lock, wr,
          lasttv, rbuf, pulse, space, ptr,
          samples, ctl, edge, nedges, flt, fed, out, dropped, drained>>

Threads == {1, 2}
Lines == 0..(n_transmitters - 1)

(***************************************************************************)
(* Carrier timing engine.                                                  *)
(***************************************************************************)

\* a - b in unsigned int arithmetic, as four bytes
U32Sub(a, b) == AddCarry(IntBytes(a, 4), NotBytes(IntBytes(b, 4)), 1)

\* 1000 * 1000000L / new_freq * factor / 100, factor an unsigned int in bytes
HalfWidth(new_freq, factor) ==
    U64Div(U64Mul(U64(NsPerSec \div new_freq), factor \o <<0, 0, 0, 0>>), 100)

\* init_timing_params with the assignments made before the checks
InitTimingParamsEarlyStore(new_duty_cycle, new_freq) ==
    IF new_freq > 0
    THEN LET p == U64(NsPerSec \div new_freq)
             pw == U64Div(U64Mul(p, U64FromU32(new_duty_cycle)), 100)
             bad == \/ U64Le(HalfWidth(new_freq, IntBytes(new_duty_cycle, 4)),
                             U64(LIRC_TRANSMITTER_LATENCY))
                    \/ U64Le(HalfWidth(new_freq, U32Sub(100, new_duty_cycle)),
                             U64(LIRC_TRANSMITTER_LATENCY))
         IN  [ret |-> IF bad THEN -EINVAL ELSE 0,
              duty_cycle |-> new_duty_cycle, freq |-> new_freq,
              period |-> p, pulse_width |-> pw, space_width |-> U64Sub(p, pw)]
    ELSE [ret |-> 0, duty_cycle |-> INVALID, freq |-> 0,
          period |-> U64(INVALID), pulse_width |-> U64(INVALID),
          space_width |-> U64(INVALID)]

\* init_timing_params with < for <= in the two checks
InitTimingParamsStrict(new_duty_cycle, new_freq) ==
    IF new_freq > 0
    THEN IF \/ U64Lt(HalfWidth(new_freq, IntBytes(new_duty_cycle, 4)),
                     U64(LIRC_TRANSMITTER_LATENCY))
            \/ U64Lt(HalfWidth(new_freq, U32Sub(100, new_duty_cycle)),
                     U64(LIRC_TRANSMITTER_LATENCY))
         THEN [ret |-> -EINVAL, duty_cycle |-> duty_cycle, freq |-> freq,
               period |-> period, pulse_width |-> pulse_width,
               space_width |-> space_width]
         ELSE LET p == U64(NsPerSec \div new_freq)
                  pw == U64Div(U64Mul(p, U64FromU32(new_duty_cycle)), 100)
              IN  [ret |-> 0, duty_cycle |-> new_duty_cycle, freq |-> new_freq,
                   period |-> p, pulse_width |-> pw,
                   space_width |-> U64Sub(p, pw)]
    ELSE [ret |-> 0, duty_cycle |-> INVALID, freq |-> 0,
          period |-> U64(INVALID), pulse_width |-> U64(INVALID),
          space_width |-> U64(INVALID)]

\* init_timing_params: what it returns and what the five statics hold after it
init_timing_params(new_duty_cycle, new_freq) ==
    IF new_freq > 0
    THEN IF \/ U64Le(HalfWidth(new_freq, IntBytes(new_duty_cycle, 4)),
                     U64(LIRC_TRANSMITTER_LATENCY))
            \/ U64Le(HalfWidth(new_freq, U32Sub(100, new_duty_cycle)),
                     U64(LIRC_TRANSMITTER_LATENCY))
         THEN [ret |-> -EINVAL, duty_cycle |-> duty_cycle, freq |-> freq,
               period |-> period, pulse_width |-> pulse_width,
               space_width |-> space_width]
         ELSE LET p == U64(NsPerSec \div new_freq)
                  pw == U64Div(U64Mul(p, U64FromU32(new_duty_cycle)), 100)
              IN  [ret |-> 0, duty_cycle |-> new_duty_cycle, freq |-> new_freq,
                   period |-> p, pulse_width |-> pw,
                   space_width |-> U64Sub(p, pw)]
    ELSE [ret |-> 0, duty_cycle |-> INVALID, freq |-> 0,
          period |-> U64(INVALID), pulse_width |-> U64(INVALID),
          space_width |-> U64(INVALID)]

\* the statics take the values r holds
StoreCarrier(r) ==
    /\ duty_cycle' = r.duty_cycle
    /\ freq' = r.freq
    /\ period' = r.period
    /\ pulse_width' = r.pulse_width
    /\ space_width' = r.space_width

\* the record of a control operation
CtlRecord(cmd, arg, called, d, f, ret) ==
    [cmd |-> cmd, arg |-> arg, called |-> called, new_duty_cycle |-> d,
     new_freq |-> f, ret |-> ret, pre |-> carrier]

\* the history of control operations, kept when log says so
Logged(log, r) == IF log THEN r ELSE ctl

NoCtl == [cmd |-> "none", arg |-> 0, called |-> FALSE, new_duty_cycle |-> 0,
          new_freq |-> 0, ret |-> 0, pre |-> <<>>]

(***************************************************************************)
(* Control operations: lirc_ioctl.  A control operation runs to its end    *)
(* in one step; the model has one control thread.  value is the __u32      *)
(* that get_user() reads, fault says that get_user() failed.               *)
(***************************************************************************)

\* case LIRC_SET_SEND_DUTY_CYCLE
IoctlSetSendDutyCycle(value, fault, log) ==
    /\ phase = "open"
    /\ IF fault
       THEN /\ ctl' = Logged(log, CtlRecord("duty", value, FALSE, 0, 0, -EFAULT))
            /\ UNCHANGED carrier
       ELSE IF value <= 0 \/ value > 100
       THEN /\ ctl' = Logged(log, CtlRecord("duty", value, FALSE, 0, 0, -EINVAL))
            /\ UNCHANGED carrier
       ELSE LET r == init_timing_params(value, freq)
            IN  /\ StoreCarrier(r)
                /\ ctl' = Logged(log, CtlRecord("duty", value, TRUE, value,
                                                 freq, r.ret))
    /\ UNCHANGED <<params, sense, tx_mask, phase, irq_on, txvars, rxvars,
                   samples>>

\* case LIRC_SET_SEND_CARRIER
IoctlSetSendCarrier(value, fault, log) ==
    /\ phase = "open"
    /\ IF fault
       THEN /\ ctl' = Logged(log, CtlRecord("carrier", value, FALSE, 0, 0, -EFAULT))
            /\ UNCHANGED carrier
       ELSE IF value > 500000 \/ value < 0
       THEN /\ ctl' = Logged(log, CtlRecord("carrier", value, FALSE, 0, 0, -EINVAL))
            /\ UNCHANGED carrier
       ELSE LET r == init_timing_params(duty_cycle, value)
            IN  /\ StoreCarrier(r)
                /\ ctl' = Logged(log, CtlRecord("carrier", value, TRUE,
                                                 duty_cycle, value, r.ret))
    /\ UNCHANGED <<params, sense, tx_mask, phase, irq_on, txvars, rxvars,
                   samples>>

\* value & ((1 << n_transmitters) - 1), value a set of bit numbers
MaskLow(value) == value \cap (0..(n_transmitters - 1))

\* case LIRC_SET_TRANSMITTER_MASK
IoctlSetTransmitterMask(value, fault, log) ==
    /\ phase = "open"
    /\ IF fault
       THEN /\ ctl' = Logged(log, CtlRecord("mask", value, FALSE, 0, 0, -EFAULT))
            /\ UNCHANGED tx_mask
       ELSE IF MaskLow(value) # value
       THEN /\ ctl' = Logged(log, CtlRecord("mask", value, FALSE, 0, 0,
                                            n_transmitters))
            /\ UNCHANGED tx_mask
       ELSE /\ tx_mask' = value
            /\ ctl' = Logged(log, CtlRecord("mask", value, FALSE, 0, 0, 0))
    /\ UNCHANGED <<params, sense, carrier, phase, irq_on, txvars, rxvars,
                   samples>>

(***************************************************************************)
(* Port initialisation and the opening of the device.                      *)
(***************************************************************************)

\* the number of samples init_port takes of the input line
NSamples == 9

\* the votes of init_port: a sample that reads high is a vote for active low
NLow(s) == Cardinality({i \in 1..Len(s) : s[i] = 1})
NHigh(s) == Cardinality({i \in 1..Len(s) : s[i] = 0})

\* the vote with a low sample counted for active low
SenseVoteLowIsLow(s) == IF NHigh(s) >= NLow(s) THEN 1 ELSE 0

\* sense = (nlow >= nhigh ? 1 : 0)
SenseVote(s) == IF NLow(s) >= NHigh(s) THEN 1 ELSE 0

\* the levels init_port leaves on the output lines
InitLevels == [i \in Lines |-> invert]

\* init_port: found says whether gpiochip_find() found the chip, s holds the
\* nine levels read from the input line
InitPort(found, s) ==
    /\ phase = "load"
    /\ IF ~found
       THEN /\ phase' = "failed"
            /\ UNCHANGED <<gpio_out, sense, samples>>
       ELSE /\ phase' = "ready"
            /\ gpio_out' = InitLevels
            /\ IF sense = -1
               THEN /\ sense' = SenseVote(s)
                    /\ samples' = s
               ELSE UNCHANGED <<sense, samples>>
    /\ UNCHANGED <<params, tx_mask, carrier, irq_on, lock, wr, rxvars, ctl>>

\* set_use_inc: tv is the time of day, result what request_irq() returns
SetUseInc(tv, result) ==
    /\ phase = "ready"
    /\ lasttv' = tv
    /\ IF result = -EBUSY \/ result = -EINVAL
       THEN /\ ctl' = CtlRecord("open", result, FALSE, 0, 0, result)
            /\ UNCHANGED <<carrier, phase, irq_on>>
       ELSE LET r == init_timing_params(duty_cycle, freq)
            IN  /\ StoreCarrier(r)
                /\ ctl' = CtlRecord("open", result, TRUE, duty_cycle, freq, 0)
                /\ phase' = "open"
                /\ irq_on' = (result = 0)
    /\ UNCHANGED <<params, sense, tx_mask, txvars, rbuf, pulse, space, ptr,
                   edge, nedges, flt, fed, out, dropped, drained, samples>>

\* the state of a thread that is not inside lirc_write: the locals of
\* lirc_write (n, wbuf, i, delta), the value returned, and the history of
\* the call: the microseconds for which safe_udelay held the enabled lines
\* active and idle, whether the call set an output line, whether every
\* line was idle at its end
IdleThread == [pc |-> "idle", n |-> 0, wbuf |-> <<>>, i |-> 0, delta |-> U64(0),
               ret |-> 0, active_us |-> 0, idle_us |-> 0,
               drove |-> FALSE, ended_idle |-> FALSE]

\* set_use_dec, when the last user closes the device
SetUseDec ==
    /\ phase = "open"
    /\ \A t \in Threads : wr[t].pc = "idle"
    /\ phase' = "ready"
    /\ irq_on' = FALSE
    /\ UNCHANGED <<params, sense, tx_mask, carrier, txvars, rxvars, samples,
                   ctl>>

\* the state when the module is loaded, before init_port: the statics hold
\* their initialisers, the output lines any level
Loaded ==
    /\ n_transmitters \in 1..MaxTransmitters
    /\ softcarrier \in BOOLEAN
    /\ invert \in BOOLEAN
    /\ tx_mask = 0..31
    /\ freq = 38000
    /\ duty_cycle = 50
    /\ period = U64(0)
    /\ pulse_width = U64(0)
    /\ space_width = U64(0)
    /\ phase = "load"
    /\ irq_on = FALSE
    /\ gpio_out \in [Lines -> BOOLEAN]
    /\ lock = 0
    /\ wr = [t \in Threads |-> IdleThread]
    /\ lasttv = <<0, 0>>
    /\ rbuf = <<>>
    /\ pulse = 0
    /\ space = 0
    /\ ptr = 0
    /\ samples = <<>>
    /\ ctl = NoCtl
    /\ edge = [signal |-> 0, tv |-> <<0, 0>>, last |-> <<0, 0>>, sense |-> 0,
               data |-> 0, l |-> 0, kind |-> "none", flips |-> 0,
               alternating |-> TRUE]
    /\ nedges = 0
    /\ flt = [called |-> FALSE, l |-> 0, pulse |-> 0, space |-> 0, ptr |-> 0,
              writes |-> <<>>, saturated |-> FALSE]
    /\ fed = <<>>
    /\ out = <<>>
    /\ dropped = 0
    /\ drained = <<>>

(***************************************************************************)
(* The control interface alone: the device is opened and closed and the    *)
(* carrier is set, with no transmission and no reception.                   *)
(***************************************************************************)

DutyArgs == {0, 1, 2, 3, 50, 97, 98, 99, 100, 101}
FreqArgs == {0, 1, 38000, 199600, 200000, 400000, 500000, 500001}
IrqResults == {0, -EBUSY, -EINVAL, -ENOMEM}

InitCtl ==
    /\ Loaded
    /\ sense = 1
    /\ n_transmitters = 1
    /\ softcarrier
    /\ ~invert
    /\ gpio_out = [i \in Lines |-> FALSE]

NextCtl ==
    \/ \E found \in BOOLEAN : InitPort(found, <<>>)
    \/ \E result \in IrqResults : SetUseInc(<<0, 0>>, result)
    \/ SetUseDec
    \/ \E v \in DutyArgs, fault \in BOOLEAN :
           IoctlSetSendDutyCycle(v, fault, TRUE)
    \/ \E v \in FreqArgs, fault \in BOOLEAN :
           IoctlSetSendCarrier(v, fault, TRUE)

SpecCtl == InitCtl /\ [][NextCtl]_vars

(***************************************************************************)
(* Claims on the carrier timing engine, under SpecCtl.                     *)
(***************************************************************************)

\* the period of a carrier of f Hz, in nanoseconds
PeriodNs(f) == NsPerSec \div f

\* p * d / 100 for 0 <= d <= 100, without a product above 2^31
Percent(p, d) == (p \div 100) * d + ((p % 100) * d) \div 100

\* the half-widths derived from a duty cycle in 1..100 and a frequency > 0
PulseNs(d, f) == Percent(PeriodNs(f), d)
SpaceNs(d, f) == PeriodNs(f) - PulseNs(d, f)

\* the last control operation called init_timing_params(d, f) with d in
\* 1..100 and f in 1..500000
CalledInRange ==
    /\ ctl.called
    /\ ctl.new_duty_cycle \in 1..100
    /\ ctl.new_freq \in 1..500000

\* C5: for every duty cycle in 1..100 and frequency in 1..500000 whose
\* derived half-widths, pulse_width = period * duty_cycle / 100 and
\* space_width = period - pulse_width, both exceed the minimum latency,
\* init_timing_params returns 0, and afterwards period = 10^9 / frequency,
\* pulse_width = period * duty_cycle / 100 and
\* pulse_width + space_width = period.
CE_C5_AcceptsWhenBothWidthsExceed ==
    (/\ CalledInRange
     /\ PulseNs(ctl.new_duty_cycle, ctl.new_freq) > LIRC_TRANSMITTER_LATENCY
     /\ SpaceNs(ctl.new_duty_cycle, ctl.new_freq) > LIRC_TRANSMITTER_LATENCY)
    => /\ ctl.ret = 0
       /\ period = U64(PeriodNs(ctl.new_freq))
       /\ pulse_width = U64(PulseNs(ctl.new_duty_cycle, ctl.new_freq))
       /\ U64Add(pulse_width, space_width) = period

\* C6: when init_timing_params refuses a pair it returns -EINVAL and freq,
\* duty_cycle, period, pulse_width and space_width are what they were
\* before the call (so that the same call, made again, is refused again
\* and changes nothing).
T_C6_RejectionKeepsCarrier ==
    (ctl.called /\ ctl.ret # 0) => (ctl.ret = -EINVAL /\ carrier = ctl.pre)

\* a pair was refused by init_timing_params after a carrier was stored
W_C6_Rejected ==
    /\ ctl.called
    /\ ctl.cmd \in {"duty", "carrier"}
    /\ ctl.ret = -EINVAL
    /\ period # U64(0)

\* the half-widths init_timing_params derives from its arguments, in
\* unsigned long arithmetic
DerivedPulse ==
    U64Div(U64Mul(U64(PeriodNs(ctl.new_freq)),
                  U64FromU32(ctl.new_duty_cycle)), 100)
DerivedSpace == U64Sub(U64(PeriodNs(ctl.new_freq)), DerivedPulse)

\* a call of init_timing_params with a frequency > 0 is refused whenever a
\* derived half-width is not above `least', and accepted only when both are
RejectsBelow(least) ==
    (ctl.called /\ ctl.new_freq > 0)
    => /\ (U64Le(DerivedPulse, U64(least)) \/ U64Le(DerivedSpace, U64(least)))
             => ctl.ret = -EINVAL
       /\ ctl.ret = 0
             => (U64Lt(U64(least), DerivedPulse)
                 /\ U64Lt(U64(least), DerivedSpace))

\* C7 as stated: a carrier update with frequency > 0 is refused whenever a
\* derived half-width is not above 50 microseconds, and accepted only when
\* both are above 50 microseconds.
CE_C7_LatencyInMicroseconds == RejectsBelow(LIRC_TRANSMITTER_LATENCY * 1000)

\* C7 as amended: a carrier update with frequency > 0 is refused with
\* -EINVAL whenever a derived half-width is not above 50 nanoseconds (the
\* unit of period, pulse_width and space_width), and accepted only when
\* both are above 50 nanoseconds.
T_C7_LatencyInNanoseconds == RejectsBelow(LIRC_TRANSMITTER_LATENCY)

\* a pair was refused for its space half-width alone, and the carrier of
\* the module defaults (38 kHz, 50 %) was accepted
W_C7_RefusedForSpace ==
    /\ ctl.called
    /\ ctl.new_freq > 0
    /\ ctl.ret = -EINVAL
    /\ U64Lt(U64(LIRC_TRANSMITTER_LATENCY), DerivedPulse)
    /\ U64Le(DerivedSpace, U64(LIRC_TRANSMITTER_LATENCY))

(***************************************************************************)
(* Port initialisation alone: the module is loaded with sense left to      *)
(* autodetection or set by hand, and the device is opened and closed.      *)
(***************************************************************************)

InitLoad ==
    /\ Loaded
    /\ sense \in {-1, 0, 1}
    /\ softcarrier

NextLoad ==
    \/ \E found \in BOOLEAN, s \in [1..NSamples -> {0, 1}] : InitPort(found, s)
    \/ \E result \in IrqResults : SetUseInc(<<0, 0>>, result)
    \/ SetUseDec

SpecLoad == InitLoad /\ [][NextLoad]_vars

\* the samples of the last autodetection that read low, and that read high
ReadLow == Cardinality({i \in 1..Len(samples) : samples[i] = 0})
ReadHigh == Cardinality({i \in 1..Len(samples) : samples[i] = 1})

\* C8 as stated: after autodetection the receiver is active low (sense = 1)
\* exactly when at least as many samples read low as read high; a line
\* that reads low on 6 of 9 samples is active low.
CE_C8_LowSamplesVoteActiveLow ==
    samples # <<>> => (sense = 1 <=> ReadLow >= ReadHigh)

\* C8 as amended: when sense is not set by hand, init_port takes 9 samples
\* and the receiver is active low (sense = 1) exactly when at least as many
\* samples read high as read low, and active high (sense = 0) otherwise; a
\* line that reads low on 6 of 9 samples is active high.
T_C8_HighSamplesVoteActiveLow ==
    samples # <<>>
    => /\ Len(samples) = NSamples
       /\ sense \in {0, 1}
       /\ sense = 1 <=> ReadHigh >= ReadLow
       /\ ReadLow = 6 => sense = 0

\* autodetection ran on a line that read low on 6 of the 9 samples
W_C8_SixLowOfNine == samples # <<>> /\ ReadLow = 6 /\ phase = "ready"

(***************************************************************************)
(* The transmitter: lirc_write and what it calls.  A thread is at          *)
(*   "idle"     outside lirc_write                                         *)
(*   "lock"     at spin_lock_irqsave                                       *)
(*   "loop"     at the head of the for loop over wbuf, holding the lock    *)
(*   "return"   at the return of lirc_write, its value not yet taken       *)
(* Levels are TRUE for 1 and FALSE for 0.                                  *)
(***************************************************************************)

\* tx_mask & (1 << n)
transmitter_enabled(n) == n \in tx_mask

\* gpiochip->set(..., level) on every enabled output line
DriveEnabled(level) ==
    [i \in Lines |-> IF transmitter_enabled(i) THEN level ELSE gpio_out[i]]

\* whether a loop over the enabled lines sets a line
SetsALine == \E i \in Lines : transmitter_enabled(i)

\* whether every enabled line is at `level' in `levels'
EnabledAt(levels, level) ==
    \A i \in Lines : transmitter_enabled(i) => levels[i] = level

\* the microseconds safe_udelay(usecs) waits, in spans of MAX_UDELAY_US
RECURSIVE safe_udelay(_)
safe_udelay(usecs) ==
    IF usecs > MAX_UDELAY_US
    THEN MAX_UDELAY_US + safe_udelay(usecs - MAX_UDELAY_US)
    ELSE usecs

\* send_pulse driving the enabled lines to the idle level
SendPulseIdleLevels == DriveEnabled(invert)

\* the lines after the for loop of send_pulse (no soft carrier)
SendPulseLevels == DriveEnabled(~invert)

\* the lines after the for loop of send_space
SendSpaceLevels == DriveEnabled(invert)

\* the while loop of send_pulse_softcarrier from the head of a pass, the
\* clock reading jitter microseconds more than each udelay() asked for:
\* the locals when the loop ends, or after MaxPasses passes
RECURSIVE CarrierLoop(_, _, _, _, _, _)
CarrierLoop(length, actual, target, flag, jitter, passes) ==
    IF ~U64Lt(actual, length) \/ passes = MaxPasses
    THEN [ended |-> ~U64Lt(actual, length), actual |-> actual, flag |-> flag,
          passes |-> passes]
    ELSE LET next_target == U64Add(target, IF flag = 1 THEN space_width
                                                        ELSE pulse_width)
             wait == U64Div(U64Sub(next_target, actual), 1000)
             slept == IF Int32(wait) > 0 THEN wait ELSE U64(0)
             elapsed == U64Add(slept, U64(jitter))
         IN  CarrierLoop(length, U64Add(actual, U64Mul(elapsed, U64(1000))),
                         next_target, 1 - flag, jitter, passes + 1)

\* the lines after a pass of send_pulse_softcarrier: !(flag ^ invert)
CarrierLevels(flag) == DriveEnabled(~((flag = 1) # invert))

\* the last loop of lirc_write, over the enabled lines only
FinalLevelsEnabledOnly == DriveEnabled(invert)

\* the lines after the last loop of lirc_write
FinalLevels == [i \in Lines |-> invert]

\* lirc_write refusing an odd count
WriteRefusedOdd(n) == n % SizeofInt # 0 \/ (n \div SizeofInt) % 2 = 1

\* n % sizeof(int) || count % 2 == 0
WriteRefused(n) == n % SizeofInt # 0 \/ (n \div SizeofInt) % 2 = 0

\* the stored carrier is one that init_timing_params is meant to refuse:
\* a frequency above 0 with a duty cycle outside 1..100 or with a
\* half-width not above the latency
CarrierInvalid ==
    /\ freq > 0
    /\ \/ duty_cycle \notin 1..100
       \/ U64Le(pulse_width, U64(LIRC_TRANSMITTER_LATENCY))
       \/ U64Le(space_width, U64(LIRC_TRANSMITTER_LATENCY))

\* lirc_write up to spin_lock_irqsave: the caller passes n bytes holding
\* the ints of buf; copied says whether memdup_user() succeeded
LircWriteCall(t, n, buf, copied) ==
    /\ phase = "open"
    /\ wr[t].pc = "idle"
    /\ LET call == [IdleThread EXCEPT !.n = n]
       IN  IF WriteRefused(n)
           THEN wr' = [wr EXCEPT ![t] = [call EXCEPT !.pc = "return",
                                                     !.ret = -EINVAL]]
           ELSE IF ~copied
           THEN wr' = [wr EXCEPT ![t] = [call EXCEPT !.pc = "return",
                                                     !.ret = -EFAULT]]
           ELSE wr' = [wr EXCEPT ![t] = [call EXCEPT !.pc = "lock",
                                                     !.wbuf = buf]]
    /\ UNCHANGED <<params, sense, tx_mask, carrier, phase, irq_on, gpio_out,
                   lock, rxvars, samples, ctl>>

\* a lock that is taken without waiting for its holder
LircWriteLockBarging(t) ==
    /\ wr[t].pc = "lock"
    /\ lock' = t
    /\ wr' = [wr EXCEPT ![t].pc = "loop", ![t].i = 0, ![t].delta = U64(0)]
    /\ UNCHANGED <<params, sense, tx_mask, carrier, phase, irq_on, gpio_out,
                   rxvars, samples, ctl>>

\* spin_lock_irqsave(&lock, flags)
LircWriteLock(t) ==
    /\ wr[t].pc = "lock"
    /\ lock = 0
    /\ lock' = t
    /\ wr' = [wr EXCEPT ![t].pc = "loop", ![t].i = 0, ![t].delta = U64(0)]
    /\ UNCHANGED <<params, sense, tx_mask, carrier, phase, irq_on, gpio_out,
                   rxvars, samples, ctl>>

\* the microseconds send_space(wbuf[i] - delta) waits
SpaceWait(w, delta) ==
    IF U64Le(U64(w), delta) THEN 0 ELSE safe_udelay(w - SmallVal(delta))

\* one pass of the for loop with i odd: send_space(wbuf[i] - delta)
LircWriteSpace(t) ==
    /\ wr[t].pc = "loop"
    /\ wr[t].i < Len(wr[t].wbuf)
    /\ wr[t].i % 2 = 1
    /\ gpio_out' = SendSpaceLevels
    /\ wr' = [wr EXCEPT
                ![t].i = @ + 1,
                ![t].drove = @ \/ SetsALine,
                ![t].idle_us =
                    IF EnabledAt(SendSpaceLevels, invert)
                    THEN @ + SpaceWait(wr[t].wbuf[wr[t].i + 1], wr[t].delta)
                    ELSE @]
    /\ UNCHANGED <<params, sense, tx_mask, carrier, phase, irq_on, lock,
                   rxvars, samples, ctl>>

\* whether send_pulse(length) makes the carrier in software
MakesCarrier(length) == length > 0 /\ softcarrier /\ freq > 0

\* one pass of the for loop with i even: delta = send_pulse(wbuf[i]), the
\* carrier not made in software
LircWritePulse(t) ==
    /\ wr[t].pc = "loop"
    /\ wr[t].i < Len(wr[t].wbuf)
    /\ wr[t].i % 2 = 0
    /\ ~MakesCarrier(wr[t].wbuf[wr[t].i + 1])
    /\ LET length == wr[t].wbuf[wr[t].i + 1]
       IN  IF length <= 0
           THEN /\ wr' = [wr EXCEPT ![t].i = @ + 1, ![t].delta = U64(0)]
                /\ UNCHANGED gpio_out
           ELSE /\ gpio_out' = SendPulseLevels
                /\ wr' = [wr EXCEPT
                            ![t].i = @ + 1,
                            ![t].delta = U64(0),
                            ![t].drove = @ \/ SetsALine,
                            ![t].active_us =
                                IF EnabledAt(SendPulseLevels, ~invert)
                                THEN @ + safe_udelay(length)
                                ELSE @]
    /\ UNCHANGED <<params, sense, tx_mask, carrier, phase, irq_on, lock,
                   rxvars, samples, ctl>>

\* one pass of the for loop with i even, the carrier made in software:
\* delta = send_pulse_softcarrier(wbuf[i]), all the passes of its while
\* loop taken as one step; the last pass leaves the lines at the level it
\* wrote, and (actual - length) / 1000 is returned
LircWritePulseSoftcarrier(t, jitter) ==
    /\ wr[t].pc = "loop"
    /\ wr[t].i < Len(wr[t].wbuf)
    /\ wr[t].i % 2 = 0
    /\ MakesCarrier(wr[t].wbuf[wr[t].i + 1])
    /\ LET length == U64Mul(U64(wr[t].wbuf[wr[t].i + 1]), U64(1000))
           end == CarrierLoop(length, U64(0), U64(0), 0, jitter, 0)
       IN  /\ end.ended
           /\ gpio_out' = CarrierLevels(1 - end.flag)
           /\ wr' = [wr EXCEPT
                       ![t].i = @ + 1,
                       ![t].delta = U64Div(U64Sub(end.actual, length), 1000),
                       ![t].drove = @ \/ SetsALine]
    /\ UNCHANGED <<params, sense, tx_mask, carrier, phase, irq_on, lock,
                   rxvars, samples, ctl>>

\* the end of lirc_write: every line to the idle level, the lock released,
\* n returned
LircWriteReturn(t) ==
    /\ wr[t].pc = "loop"
    /\ wr[t].i = Len(wr[t].wbuf)
    /\ gpio_out' = FinalLevels
    /\ lock' = 0
    /\ wr' = [wr EXCEPT
                ![t].pc = "return",
                ![t].ret = wr[t].n,
                ![t].i = 0,
                ![t].delta = U64(0),
                ![t].drove = TRUE,
                ![t].ended_idle = \A i \in Lines : FinalLevels[i] = invert]
    /\ UNCHANGED <<params, sense, tx_mask, carrier, phase, irq_on, rxvars,
                   samples, ctl>>

\* the caller takes the value lirc_write returned
LircWriteDone(t) ==
    /\ wr[t].pc = "return"
    /\ wr' = [wr EXCEPT ![t] = IdleThread]
    /\ UNCHANGED <<params, sense, tx_mask, carrier, phase, irq_on, gpio_out,
                   lock, rxvars, samples, ctl>>

(***************************************************************************)
(* The transmitter with the control interface: two threads transmit while  *)
(* a third sets the carrier and the transmitter mask.                      *)
(***************************************************************************)

\* transmit requests <<n, buf>>, n the bytes passed: short ones, which a
\* 38 kHz carrier fills with a few half-periods, and the long ones sent
\* when the carrier is not made in software
CarrierBufs == {<<30, 20>>, <<30, 20, 30>>}
SteadyBufs == {<<1000, 500, 1000, 500>>, <<1000, 500, 1000>>, <<0, 500, 6000>>}
TxBufs == IF softcarrier THEN CarrierBufs ELSE CarrierBufs \cup SteadyBufs
\* the first thread sends every request, the others one short sequence
TxRequests(t) ==
    IF t = 1
    THEN {<<SizeofInt * Len(buf), buf>> : buf \in TxBufs}
             \cup {<<0, <<>>>>, <<SizeofInt + 1, <<30>>>>}
    ELSE {<<SizeofInt * 3, <<30, 20, 30>>>>}
TxFreqArgs == {0, 38000}
TxDutyArgs == {50}
TxMaskArgs == {{}, {0}, {MaxTransmitters}}

InitTx ==
    /\ Loaded
    /\ sense = 1
    /\ n_transmitters = MaxTransmitters

NextTx ==
    \/ InitPort(TRUE, <<>>)
    \/ SetUseInc(<<0, 0>>, 0)
    \/ \E v \in TxDutyArgs : IoctlSetSendDutyCycle(v, FALSE, FALSE)
    \/ \E v \in TxFreqArgs : IoctlSetSendCarrier(v, FALSE, FALSE)
    \/ \E v \in TxMaskArgs : IoctlSetTransmitterMask(v, FALSE, FALSE)
    \/ \E t \in Threads, copied \in BOOLEAN : \E q \in TxRequests(t) :
           LircWriteCall(t, q[1], q[2], copied)
    \/ \E t \in Threads : LircWriteLock(t)
    \/ \E t \in Threads : LircWriteSpace(t)
    \/ \E t \in Threads : LircWritePulse(t)
    \/ \E t \in Threads, jitter \in 0..MaxJitter :
           LircWritePulseSoftcarrier(t, jitter)
    \/ \E t \in Threads : LircWriteReturn(t)
    \/ \E t \in Threads : LircWriteDone(t)

SpecTx == InitTx /\ [][NextTx]_vars

(***************************************************************************)
(* Transmit requests: what lirc_write refuses, what it sends, and how it   *)
(* leaves the lines.                                                       *)
(***************************************************************************)

\* the number of ints in a request of n bytes
Count(n) == n \div SizeofInt

\* a thread at the return of lirc_write
Returned(t) == wr[t].pc = "return"

\* a thread whose call was sent to the end
Sent(t) == Returned(t) /\ wr[t].n > 0 /\ wr[t].ret = wr[t].n

\* the sum of the entries of buf at the positions of the same parity as
\* its first
RECURSIVE SumAlternate(_)
SumAlternate(buf) ==
    IF buf = <<>> THEN 0
    ELSE IF Len(buf) = 1 THEN buf[1]
    ELSE buf[1] + SumAlternate(SubSeq(buf, 3, Len(buf)))

SumPulses(buf) == SumAlternate(buf)
SumSpaces(buf) == IF buf = <<>> THEN 0 ELSE SumAlternate(Tail(buf))

\* C1 as stated: a transmit request whose array has an odd number of
\* entries returns -EINVAL and sets no output line (a request whose buffer
\* could not be copied is left aside).
CE_C1_OddCountRefused ==
    \A t \in Threads :
        (/\ Returned(t)
         /\ wr[t].n % SizeofInt = 0
         /\ Count(wr[t].n) % 2 = 1
         /\ wr[t].ret # -EFAULT)
            => (wr[t].ret = -EINVAL /\ ~wr[t].drove)

\* C1: a transmit request whose array has an even number of entries, the
\* empty array included, returns -EINVAL and sets no output line, and a
\* request refused with -EINVAL never has a whole odd number of entries.
T_C1_EvenCountRefused ==
    \A t \in Threads :
        /\ (Returned(t) /\ Count(wr[t].n) % 2 = 0)
               => (wr[t].ret = -EINVAL /\ ~wr[t].drove)
        /\ (Returned(t) /\ wr[t].ret = -EINVAL)
               => (wr[t].n % SizeofInt # 0 \/ Count(wr[t].n) % 2 = 0)

\* a request of four entries has been refused with every line left alone
W_C1_FourEntriesRefused ==
    \E t \in Threads :
        /\ Returned(t)
        /\ wr[t].n = 4 * SizeofInt
        /\ wr[t].ret = -EINVAL
        /\ ~wr[t].drove

\* C2 as stated: with soft carrier disabled a request carrying a non-empty
\* even-length sequence is accepted and sent in order, the enabled lines
\* active for the sum of its pulses and idle for the sum of its spaces,
\* every line idle at the return.
CE_C2_EvenSequenceSent ==
    \A t \in Threads :
        (/\ Returned(t)
         /\ ~softcarrier
         /\ wr[t].n > 0
         /\ wr[t].n % SizeofInt = 0
         /\ Count(wr[t].n) % 2 = 0)
            => /\ wr[t].ret = wr[t].n
               /\ Len(wr[t].wbuf) = Count(wr[t].n)
               /\ wr[t].active_us = SumPulses(wr[t].wbuf)
               /\ wr[t].idle_us = SumSpaces(wr[t].wbuf)
               /\ wr[t].ended_idle

\* C2: with soft carrier disabled a request carrying an odd-length
\* sequence [p0, s0, ..., pk] is accepted once its buffer is copied and is
\* sent in order: the enabled lines are held active for each pulse and idle
\* for each space (for [1000, 500, 1000]: active 2000, idle 500), and every
\* line is idle when the call returns.
T_C2_OddSequenceSent ==
    \A t \in Threads :
        /\ (/\ Returned(t)
            /\ wr[t].n % SizeofInt = 0
            /\ Count(wr[t].n) % 2 = 1)
               => (wr[t].ret = wr[t].n \/ wr[t].ret = -EFAULT)
        /\ (Sent(t) /\ ~softcarrier)
               => /\ Len(wr[t].wbuf) = Count(wr[t].n)
                  /\ Len(wr[t].wbuf) % 2 = 1
                  /\ wr[t].active_us = SumPulses(wr[t].wbuf)
                  /\ wr[t].idle_us = SumSpaces(wr[t].wbuf)
                  /\ wr[t].ended_idle

\* [1000, 500, 1000] has been sent on an enabled line with no soft carrier
W_C2_ThreeEntriesSent ==
    \E t \in Threads :
        /\ Sent(t)
        /\ ~softcarrier
        /\ wr[t].wbuf = <<1000, 500, 1000>>
        /\ wr[t].active_us = 2000
        /\ wr[t].idle_us = 500
        /\ wr[t].ended_idle
        /\ transmitter_enabled(0)

\* no thread is inside lirc_write
NoTransmit == \A t \in Threads : wr[t].pc \in {"idle", "return"}

\* C3: whenever the port is initialized and no transmit call is executing,
\* every configured output line is at the idle level, the value of invert.
T_C3_IdleBetweenTransmits ==
    (phase \in {"ready", "open"} /\ NoTransmit)
        => \A i \in Lines : gpio_out[i] = invert

\* a sequence ending in a pulse has been sent and has returned while the
\* mask leaves a configured line out
W_C3_ReturnedUnderPartialMask ==
    /\ NoTransmit
    /\ \E i \in Lines : ~transmitter_enabled(i)
    /\ \E t \in Threads :
           /\ Sent(t)
           /\ Len(wr[t].wbuf) % 2 = 1
           /\ wr[t].wbuf[Len(wr[t].wbuf)] > 0
           /\ wr[t].drove


(***************************************************************************)
(* The receive path: irq_handler, frbwrite, rbwrite and the lirc_buffer    *)
(* that lirc_dev reads.  A record is an int: its magnitude in the low 24   *)
(* bits, PULSE_BIT set for a pulse.  The records here are never negative.  *)
(***************************************************************************)

\* l & PULSE_BIT
HasPulseBit(l) == (l \div PULSE_BIT) % 2 = 1

\* l & PULSE_MASK
Magnitude(l) == l % PULSE_BIT

\* l | PULSE_BIT
WithPulseBit(l) == IF HasPulseBit(l) THEN l ELSE l + PULSE_BIT

\* rbwrite on a full buffer making room by dropping the oldest record
RbwriteDropOldest(buf, l) ==
    IF Len(buf) = RBUF_LEN THEN Append(Tail(buf), l) ELSE Append(buf, l)

\* rbwrite: the buffer after rbwrite(l)
rbwrite(buf, l) == IF Len(buf) = RBUF_LEN THEN buf ELSE Append(buf, l)

\* the buffer after rbwrite on each record of ws in turn
RECURSIVE StoreAll(_, _)
StoreAll(buf, ws) ==
    IF ws = <<>> THEN buf ELSE StoreAll(rbwrite(buf, Head(ws)), Tail(ws))

\* how many of those calls found the buffer full
RECURSIVE Drops(_, _)
Drops(buf, ws) ==
    IF ws = <<>> THEN 0
    ELSE (IF Len(buf) = RBUF_LEN THEN 1 ELSE 0)
             + Drops(rbwrite(buf, Head(ws)), Tail(ws))

\* the calls of rbwrite in ws reach the buffer
Deliver(ws) ==
    /\ rbuf' = StoreAll(rbuf, ws)
    /\ out' = out \o ws
    /\ dropped' = dropped + Drops(rbuf, ws)

\* a record reaches rbwrite
Rbwrite(l) ==
    /\ Len(out) < MaxFeed
    /\ Deliver(<<l>>)
    /\ UNCHANGED <<params, sense, tx_mask, carrier, phase, irq_on, txvars,
                   lasttv, pulse, space, ptr, edge, nedges, flt, fed, drained,
                   samples, ctl>>

\* the reader of lirc_dev takes the oldest record out of the buffer
Read ==
    /\ rbuf # <<>>
    /\ drained' = Append(drained, Head(rbuf))
    /\ rbuf' = Tail(rbuf)
    /\ UNCHANGED <<params, sense, tx_mask, carrier, phase, irq_on, txvars,
                   lasttv, pulse, space, ptr, edge, nedges, flt, fed, out,
                   dropped, samples, ctl>>

\* the flush of frbwrite with the pulse written first
FlushPulseFirst(sp, pu) == <<WithPulseBit(pu), sp>>

\* rbwrite(space); rbwrite(pulse | PULSE_BIT);
Flush(sp, pu) == <<sp, WithPulseBit(pu)>>

\* if (space > PULSE_MASK) space = PULSE_MASK;
Saturate(x) == IF x > PULSE_MASK THEN PULSE_MASK ELSE x

\* a long space merged into the pending space with the pending pulse lost
MergedSpaceDropsPulse(f, l) == Saturate(f.space + l)

\* space += pulse; space += l; each saturated at PULSE_MASK
MergedSpace(f, l) == Saturate(Saturate(f.space + f.pulse) + l)

\* frbwrite(l) with the statics as in f: the statics afterwards and the
\* records given to rbwrite, in order
frbwrite(l, f) ==
    IF f.ptr > 0 /\ HasPulseBit(l)
    THEN LET p == f.pulse + Magnitude(l)
         IN  IF p > 250
             THEN [pulse |-> 0, space |-> f.space, ptr |-> 0,
                   writes |-> Flush(f.space, p)]
             ELSE [pulse |-> p, space |-> f.space, ptr |-> f.ptr,
                   writes |-> <<>>]
    ELSE IF HasPulseBit(l)
    THEN [pulse |-> f.pulse, space |-> f.space, ptr |-> f.ptr,
          writes |-> <<l>>]
    ELSE IF f.ptr = 0
    THEN IF l > 20000
         THEN [pulse |-> f.pulse, space |-> l, ptr |-> f.ptr + 1,
               writes |-> <<>>]
         ELSE [pulse |-> f.pulse, space |-> f.space, ptr |-> f.ptr,
               writes |-> <<l>>]
    ELSE IF l > 20000
    THEN [pulse |-> 0, space |-> MergedSpace(f, l),
          ptr |-> f.ptr, writes |-> <<>>]
    ELSE [pulse |-> 0, space |-> f.space, ptr |-> 0,
          writes |-> Flush(f.space, f.pulse) \o <<l>>]

\* history: frbwrite(l) with the statics as in f makes a sum that does not
\* fit in PULSE_MASK: the pending space when a long space is merged into
\* it, or the pending pulse when a pulse is added to it
Saturates(l, f) ==
    /\ f.ptr > 0
    /\ IF HasPulseBit(l)
       THEN f.pulse + Magnitude(l) > PULSE_MASK
       ELSE l > 20000 /\ f.space + f.pulse + l > PULSE_MASK

\* the statics of frbwrite
Statics == [pulse |-> pulse, space |-> space, ptr |-> ptr]

\* a call frbwrite(l), the calls of rbwrite it makes included
Feed(l) ==
    LET r == frbwrite(l, Statics)
    IN  /\ pulse' = r.pulse
        /\ space' = r.space
        /\ ptr' = r.ptr
        /\ Deliver(r.writes)
        /\ fed' = Append(fed, l)
        /\ flt' = [called |-> TRUE, l |-> l, pulse |-> pulse, space |-> space,
                   ptr |-> ptr, writes |-> r.writes,
                   saturated |-> flt.saturated \/ Saturates(l, Statics)]

\* a record reaches frbwrite
Frbwrite(l) ==
    /\ Len(fed) < MaxFeed
    /\ Feed(l)
    /\ UNCHANGED <<params, sense, tx_mask, carrier, phase, irq_on, txvars,
                   lasttv, edge, nedges, drained, samples, ctl>>

\* the seconds between two edges above which irq_handler reports a long gap
LongGapSecs == 15

\* tv earlier than last
ClockWentBack(tv, last) ==
    tv[1] < last[1] \/ (tv[1] = last[1] /\ tv[2] < last[2])

\* the record irq_handler makes of data, tagged a pulse when the level
\* differs from sense
IrqRecordPulseOnXor(signal, s, data) ==
    IF signal # s THEN WithPulseBit(data) ELSE data

\* signal^sense ? data : (data|PULSE_BIT)
IrqRecord(signal, s, data) ==
    IF signal # s THEN data ELSE WithPulseBit(data)

\* irq_handler correcting sense on a clock regression as on a long gap
IrqBranchRegressionFlips(signal, tv) ==
    LET deltv == tv[1] - lasttv[1]
    IN  IF ClockWentBack(tv, lasttv) \/ deltv > LongGapSecs
        THEN [kind |-> IF ClockWentBack(tv, lasttv) THEN "regression"
                                                    ELSE "timeout",
              data |-> PULSE_MASK,
              sense |-> IF signal = sense
                        THEN (IF sense # 0 THEN 0 ELSE 1)
                        ELSE sense]
        ELSE [kind |-> "delta",
              data |-> Int32(U64(deltv * 1000000 + (tv[2] - lasttv[2]))),
              sense |-> sense]

\* the branch irq_handler takes on an edge at tv, with data and sense as
\* the branch leaves them
IrqBranch(signal, tv) ==
    LET deltv == tv[1] - lasttv[1]
    IN  IF ClockWentBack(tv, lasttv)
        THEN [kind |-> "regression", data |-> PULSE_MASK, sense |-> sense]
        ELSE IF deltv > LongGapSecs
        THEN [kind |-> "timeout", data |-> PULSE_MASK,
              sense |-> IF signal = sense
                        THEN (IF sense # 0 THEN 0 ELSE 1)
                        ELSE sense]
        ELSE [kind |-> "delta",
              data |-> Int32(U64(deltv * 1000000 + (tv[2] - lasttv[2]))),
              sense |-> sense]

\* history: whether the levels read at the edges so far, this one with
\* level signal included, alternate
Alternating(signal) ==
    edge.alternating /\ (edge.kind = "none" \/ signal # edge.signal)

\* irq_handler on an edge: signal is the level read from the input line,
\* tv the time of day
IrqHandler(signal, tv) ==
    /\ phase = "open"
    /\ irq_on
    /\ nedges < MaxEdges
    /\ nedges' = nedges + 1
    /\ IF sense # -1
       THEN LET b == IrqBranch(signal, tv)
                l == IrqRecord(signal, b.sense, b.data)
            IN  /\ sense' = b.sense
                /\ Feed(l)
                /\ lasttv' = tv
                /\ edge' = [signal |-> signal, tv |-> tv, last |-> lasttv,
                            sense |-> sense, data |-> b.data, l |-> l,
                            kind |-> b.kind,
                            flips |-> edge.flips
                                          + (IF b.sense # sense THEN 1 ELSE 0),
                            alternating |-> Alternating(signal)]
       ELSE /\ edge' = [signal |-> signal, tv |-> tv, last |-> lasttv,
                        sense |-> sense, data |-> 0, l |-> 0,
                        kind |-> "ignored", flips |-> edge.flips,
                        alternating |-> Alternating(signal)]
            /\ UNCHANGED <<sense, lasttv, rbuf, pulse, space, ptr, flt, fed,
                           out, dropped>>
    /\ UNCHANGED <<params, tx_mask, carrier, phase, irq_on, txvars, drained,
                   samples, ctl>>

\* one configuration of the module parameters for the receive path
RxLoaded ==
    /\ Loaded
    /\ n_transmitters = 1
    /\ softcarrier
    /\ ~invert
    /\ gpio_out = [i \in Lines |-> FALSE]

(***************************************************************************)
(* The buffer alone: records reach rbwrite and the reader takes them.      *)
(***************************************************************************)

RbRecords == {1000, 25000, WithPulseBit(100)}

InitRb ==
    /\ RxLoaded
    /\ sense = 1

NextRb ==
    \/ \E l \in RbRecords : Rbwrite(l)
    \/ Read

SpecRb == InitRb /\ [][NextRb]_vars

\* the first k records of a sequence
FirstOf(seq, k) == SubSeq(seq, 1, IF Len(seq) < k THEN Len(seq) ELSE k)

\* RBUF_LEN + 1 records were written to the empty buffer with no read in
\* between: the last of them found the buffer full
WroteOneTooMany == Len(out) = RBUF_LEN + 1 /\ dropped = 1

\* what is said of the buffer both in C4 as stated and as it holds: of
\* RBUF_LEN + 1 records written to the empty buffer with no read in between
\* the first RBUF_LEN are stored and the last is dropped, and the reader
\* then takes exactly the first RBUF_LEN in the order written
FirstKeptLastDropped ==
    /\ Len(rbuf) <= RBUF_LEN
    /\ (drained = <<>> /\ Len(out) > RBUF_LEN)
           => (rbuf = FirstOf(out, RBUF_LEN) /\ dropped = Len(out) - RBUF_LEN)
    /\ WroteOneTooMany => drained \o rbuf = FirstOf(out, RBUF_LEN)
    /\ (WroteOneTooMany /\ rbuf = <<>>) => drained = FirstOf(out, RBUF_LEN)

\* C4 as stated: the first RBUF_LEN records are stored, the last is dropped
\* and the reader takes the first RBUF_LEN in order, and the dropped write
\* sets a flag for the reader: it changes what the reader can get from the
\* buffer.
CE_C4_DropSetsFlag ==
    /\ []FirstKeptLastDropped
    /\ [][dropped' > dropped => rbuf' # rbuf]_vars

\* C4: the first RBUF_LEN records are stored, the last is dropped and the
\* reader takes the first RBUF_LEN in order, and the dropped write leaves
\* the buffer, which is all the reader can get, exactly as it was.
T_C4_DropLeavesNoTrace ==
    /\ []FirstKeptLastDropped
    /\ [][dropped' > dropped => rbuf' = rbuf]_vars

\* the buffer was filled, one more record was dropped, and the reader has
\* taken all that was stored
W_C4_DrainedAfterDrop ==
    /\ WroteOneTooMany
    /\ rbuf = <<>>
    /\ Len(drained) = RBUF_LEN

(***************************************************************************)
(* The noise filter alone: records reach frbwrite.                         *)
(***************************************************************************)

FilterRecords ==
    {1000, 25000, PULSE_MASK,
     WithPulseBit(100), WithPulseBit(200), WithPulseBit(30000),
     WithPulseBit(PULSE_MASK)}

InitFilter ==
    /\ RxLoaded
    /\ sense = 1

NextFilter == \E l \in FilterRecords : Frbwrite(l)

SpecFilter == InitFilter /\ [][NextFilter]_vars

\* the last call of frbwrite found the filter armed
WasArmed == flt.called /\ flt.ptr > 0

\* the pulse pending in an armed filter once the record of the last call
\* is counted in
Accumulated ==
    IF HasPulseBit(flt.l) THEN flt.pulse + Magnitude(flt.l) ELSE flt.pulse

\* the last call was a pulse taking the pending pulse above 250
PulseTrigger == HasPulseBit(flt.l) /\ Accumulated > 250

\* the last call was a space not above 20000
SpaceTrigger == ~HasPulseBit(flt.l) /\ flt.l <= 20000

\* C9: an armed filter flushes exactly on a pulse that takes the pending
\* pulse above 250 or on a space not above 20000; the flush writes the
\* pending space, then the accumulated pulse with PULSE_BIT set, then the
\* triggering space if a space triggered it, and leaves the filter unarmed
\* with no pending pulse.  From the unarmed state [SPACE 25000, PULSE 100,
\* SPACE 1000] writes just these three and [SPACE 25000, PULSE 30000] just
\* these two.
T_C9_FlushWritesSpaceThenPulse ==
    /\ (WasArmed /\ PulseTrigger)
           => /\ flt.writes = <<flt.space, WithPulseBit(Accumulated)>>
              /\ ptr = 0
              /\ pulse = 0
    /\ (WasArmed /\ SpaceTrigger)
           => /\ flt.writes = <<flt.space, WithPulseBit(Accumulated), flt.l>>
              /\ ptr = 0
              /\ pulse = 0
    /\ (WasArmed /\ ~PulseTrigger /\ ~SpaceTrigger)
           => (flt.writes = <<>> /\ ptr > 0)
    /\ fed = <<25000, WithPulseBit(100), 1000>>
           => (out = <<25000, WithPulseBit(100), 1000>> /\ ptr = 0)
    /\ fed = <<25000, WithPulseBit(30000)>>
           => (out = <<25000, WithPulseBit(30000)>> /\ ptr = 0 /\ pulse = 0)

\* a space of 1000 has flushed a filter armed with a space of 25000 and a
\* pending pulse of 100
W_C9_SpaceFlushedPair ==
    /\ WasArmed
    /\ SpaceTrigger
    /\ fed = <<25000, WithPulseBit(100), 1000>>
    /\ out = <<25000, WithPulseBit(100), 1000>>

(***************************************************************************)
(* The decoder: the device is opened and edges arrive.                     *)
(***************************************************************************)

Secs == {0, 15, 16, 32}
Usecs == {0, 500}
Times == Secs \X Usecs
Levels == {0, 1}

InitRx ==
    /\ RxLoaded
    /\ sense \in {0, 1}

NextRx ==
    \/ InitPort(TRUE, <<>>)
    \/ \E tv \in Times : SetUseInc(tv, 0)
    \/ \E signal \in Levels, tv \in Times : IrqHandler(signal, tv)

SpecRx == InitRx /\ [][NextRx]_vars

\* the microseconds from the edge before the last one to the last one
EdgeDelta == (edge.tv[1] - edge.last[1]) * 1000000 + (edge.tv[2] - edge.last[2])

\* the last edge was taken with the clock not gone back and no more than
\* fifteen seconds after the edge before
PlainEdge ==
    /\ edge.kind \notin {"none", "ignored"}
    /\ ~ClockWentBack(edge.tv, edge.last)
    /\ EdgeDelta <= LongGapSecs * 1000000

\* C10 as stated: for an edge that is neither a clock regression nor an
\* idle timeout the record has magnitude delta and is a PULSE if the level
\* differs from sense, a SPACE if it is equal.
CE_C10_PulseWhenLevelDiffers ==
    PlainEdge
        => /\ Magnitude(edge.l) = EdgeDelta
           /\ HasPulseBit(edge.l) <=> (edge.signal # edge.sense)

\* C10: for an edge that is neither a clock regression nor an idle timeout
\* the record given to the noise filter has magnitude delta and is a SPACE
\* if the level differs from sense, a PULSE if it is equal.
T_C10_SpaceWhenLevelDiffers ==
    PlainEdge
        => /\ Magnitude(edge.l) = EdgeDelta
           /\ HasPulseBit(edge.l) <=> (edge.signal = edge.sense)
           /\ fed # <<>>
           /\ fed[Len(fed)] = edge.l

\* an edge 500 microseconds after the last one, its level differing from
\* sense, was made a SPACE of 500
W_C10_DifferingLevelSpace ==
    /\ PlainEdge
    /\ edge.signal # edge.sense
    /\ EdgeDelta = 500
    /\ edge.l = 500


\* the last edge was taken by the decoder
EdgeTaken == edge.kind \notin {"none", "ignored"}

\* the last edge was taken with the clock gone back
Regressed == EdgeTaken /\ ClockWentBack(edge.tv, edge.last)

\* C11 as stated: on a clock regression the record is of the maximum
\* magnitude and a PULSE whatever the level and sense are, sense is left as
\* it was and lasttv is set to the time of the edge.
CE_C11_RegressionAlwaysPulse ==
    Regressed
        => /\ edge.l = WithPulseBit(PULSE_MASK)
           /\ sense = edge.sense
           /\ lasttv = edge.tv

\* C11: on a clock regression the record given to the noise filter is of
\* the maximum magnitude, a SPACE if the level differs from sense and a
\* PULSE if it is equal; sense is left as it was and lasttv is set to the
\* time of the edge.
T_C11_RegressionTaggedByLevel ==
    Regressed
        => /\ Magnitude(edge.l) = PULSE_MASK
           /\ HasPulseBit(edge.l) <=> (edge.signal = edge.sense)
           /\ fed # <<>>
           /\ fed[Len(fed)] = edge.l
           /\ sense = edge.sense
           /\ lasttv = edge.tv

\* the clock went back at an edge whose level differs from sense, and the
\* record is a SPACE of the maximum magnitude
W_C11_RegressionSpace ==
    /\ Regressed
    /\ edge.signal # edge.sense
    /\ edge.l = PULSE_MASK
    /\ lasttv = edge.tv

\* C12 as stated: for an edge without clock regression the record is of
\* the maximum magnitude when delta is above 15,000,000 microseconds and
\* of magnitude delta when it is not.
CE_C12_TimeoutAboveFifteenSeconds ==
    (EdgeTaken /\ ~ClockWentBack(edge.tv, edge.last))
        => IF EdgeDelta > LongGapSecs * 1000000
           THEN Magnitude(edge.l) = PULSE_MASK
           ELSE Magnitude(edge.l) = EdgeDelta


\* a thread is between spin_lock_irqsave and spin_unlock_irqrestore, where
\* lirc_write and what it calls write the output lines
Holding(t) == wr[t].pc = "loop"

\* at most one thread is there, and it holds the lock
OneAtATime ==
    /\ \A t, u \in Threads : (Holding(t) /\ Holding(u)) => t = u
    /\ \A t \in Threads : Holding(t) => lock = t

\* C13: transmit calls never interleave: at most one thread at a time is
\* between the lock and the unlock of lirc_write, and once the device is
\* open a level of an output line changes only in a step of that thread.
T_C13_NoInterleaving ==
    /\ []OneAtATime
    /\ [][(phase = "open" /\ gpio_out' # gpio_out)
              => \E t \in Threads :
                     /\ Holding(t)
                     /\ lock = t
                     /\ wr'[t] # wr[t]
                     /\ \A u \in Threads \ {t} : wr'[u] = wr[u]]_vars

\* one thread has written the lines and is still sending while another
\* waits for the lock
W_C13_SendingWhileOtherWaits ==
    \E t, u \in Threads :
        /\ Holding(t)
        /\ wr[t].drove
        /\ wr[t].i < Len(wr[t].wbuf)
        /\ wr[u].pc = "lock"


\* C14 as stated: a transmit request made while the stored carrier is
\* invalid is refused: the call goes no further than its checks, returns
\* an error and sets no output line.
CE_C14_InvalidCarrierRefused ==
    [][\A t \in Threads :
           (wr[t].pc = "idle" /\ wr'[t].pc # "idle" /\ CarrierInvalid)
               => /\ wr'[t].pc = "return"
                  /\ wr'[t].ret < 0
                  /\ ~wr'[t].drove
                  /\ gpio_out' = gpio_out]_vars


\* C15 as stated: when request_irq fails with any error set_use_inc fails
\* too, and set_use_inc returns success only with the handler registered.
CE_C15_OpenFailsWhenIrqFails ==
    ctl.cmd = "open"
        => /\ ctl.arg # 0 => (ctl.ret # 0 /\ phase # "open")
           /\ ctl.ret = 0 => irq_on


\* C16 as stated: over the edges the decoder takes it changes sense at
\* most once.
CE_C16_SenseFlipsOnce == edge.flips <= 1


\* the carrier and transmitter configuration
configuration == <<freq, duty_cycle, period, pulse_width, space_width, tx_mask>>

\* C17 as stated: while a transmit call holds the lock no step changes
\* freq, duty_cycle, period, pulse_width, space_width or tx_mask.
CE_C17_ConfigurationLocked ==
    [][lock # 0 => configuration' = configuration]_vars


\* no two neighbours in seq are both pulses or both spaces
Alternates(seq) ==
    \A i \in 1..(Len(seq) - 1) : HasPulseBit(seq[i]) # HasPulseBit(seq[i + 1])

\* C18 as stated: while the levels read at the edges alternate, the records
\* stored in the buffer alternate between PULSE and SPACE.
CE_C18_StoredRecordsAlternate ==
    edge.alternating => Alternates(drained \o rbuf)


\* C19 as stated: every record given to the buffer is below twice
\* PULSE_BIT, so that PULSE_BIT alone tells its kind, and the pulse that an
\* armed filter flushes is the accumulated pulse, which is never above
\* PULSE_MASK.
CE_C19_PulseTotalFits ==
    /\ \A k \in 1..Len(out) : out[k] < 2 * PULSE_BIT
    /\ (WasArmed /\ (PulseTrigger \/ SpaceTrigger))
           => /\ Accumulated <= PULSE_MASK
              /\ Magnitude(flt.writes[2]) = Saturate(Accumulated)
              /\ HasPulseBit(flt.writes[2])
              /\ ~HasPulseBit(flt.writes[1])
              /\ flt.writes[1] <= PULSE_MASK


\* C20 as stated: after any control operation, whenever the stored
\* frequency is above 0 the stored duty cycle is in 1..100 and both stored
\* half-widths are above the latency.
CE_C20_StoredCarrierValid ==
    (ctl.cmd \in {"duty", "carrier"} /\ freq > 0)
        => /\ duty_cycle \in 1..100
           /\ U64Lt(U64(LIRC_TRANSMITTER_LATENCY), pulse_width)
           /\ U64Lt(U64(LIRC_TRANSMITTER_LATENCY), space_width)


\* the sum of the magnitudes of the records of seq
RECURSIVE SumMagnitudes(_)
SumMagnitudes(seq) ==
    IF seq = <<>> THEN 0 ELSE Magnitude(Head(seq)) + SumMagnitudes(Tail(seq))

\* the space and the pulse an armed filter holds back
Pending == IF ptr > 0 THEN space + pulse ELSE 0

\* C21: as long as no sum in the filter has gone above PULSE_MASK and no
\* record was dropped by a full buffer, the magnitudes written downstream
\* plus the pending space and pulse of an armed filter add up to the
\* magnitudes of all the records fed to the filter; and an unarmed filter
\* has no pending pulse.
T_C21_FilterConservesDuration ==
    /\ (~flt.saturated /\ dropped = 0)
           => SumMagnitudes(out) + Pending = SumMagnitudes(fed)
    /\ ptr = 0 => pulse = 0

\* a long space armed the filter, a short pulse and a second long space
\* were merged into the pending space, and a further short pulse is pending
W_C21_PendingAfterMerge ==
    /\ ~flt.saturated
    /\ dropped = 0
    /\ fed = <<25000, WithPulseBit(100), 25000, WithPulseBit(200)>>
    /\ ptr > 0
    /\ space = 50100
    /\ pulse = 200

=============================================================================
